---- MODULE Spec2Model ----
(***************************************************************************)
(* Brooks-Corey capillary pressure curves (brookscorey.hh) and the         *)
(* Simple_H2O_N2_System fluid system (part_001).                           *)
(*                                                                         *)
(* Both are collections of static, stateless functions.  The state of the  *)
(* model is the last call made by a client (function, arguments) and its   *)
(* outcome (returned value, failed assertion, thrown exception).           *)
(*                                                                         *)
(* Scalar values are exact: a finite Scalar is (n/d) * 2^(rn/rd) with n/d  *)
(* an odd rational, so products, quotients and the powers used by the      *)
(* curves are computed without rounding; +-inf and NaN follow IEEE-754 and *)
(* C's pow().  Rounding and the finite exponent range of double are not    *)
(* modelled.  Functions of other headers (H2O, N2, IdealGas, BinaryCoeff)  *)
(* are uninterpreted: a call is the term of its name and its arguments.    *)
(***************************************************************************)
EXTENDS Integers, Sequences, FiniteSets, TLC

VARIABLES ndebug, call, ret

vars == <<ndebug, call, ret>>

----------------------------------------------------------------------------
(* Bounds of the model *)

\* saturations offered to the curves: 2^(-j/2), j in 0..MaxSatSteps
MaxSatSteps == 4
\* phase and component indices offered to the fluid system: -1..MaxIdx
MaxIdx == 2

----------------------------------------------------------------------------
(* Rationals <<n, d>>, d > 0, in lowest terms *)

Abs(n) == IF n < 0 THEN -n ELSE n

Sgn(n) == IF n < 0 THEN -1 ELSE IF n = 0 THEN 0 ELSE 1

RECURSIVE GCD(_, _)
GCD(a, b) == IF b = 0 THEN a ELSE GCD(b, a % b)

Rat(n, d) ==
    LET g == GCD(Abs(n), Abs(d))
        s == IF d < 0 THEN -1 ELSE 1
    IN  <<(s * n) \div g, (s * d) \div g>>

RAdd(a, b) == Rat(a[1] * b[2] + b[1] * a[2], a[2] * b[2])

RMul(a, b) == Rat(a[1] * b[1], a[2] * b[2])

RNeg(a) == <<-a[1], a[2]>>

RInv(a) == Rat(a[2], a[1])

RAbs(a) == <<Abs(a[1]), a[2]>>

RECURSIVE IPow(_, _)
IPow(b, e) == IF e = 0 THEN 1 ELSE b * IPow(b, e - 1)

\* a^e for a rational a # 0 and an integer e
RIPow(a, e) ==
    IF e >= 0 THEN <<IPow(a[1], e), IPow(a[2], e)>>
    ELSE Rat(IPow(a[2], -e), IPow(a[1], -e))

\* the exponent of 2 in n > 0
RECURSIVE V2(_)
V2(n) == IF n % 2 = 0 THEN 1 + V2(n \div 2) ELSE 0

----------------------------------------------------------------------------
(* Scalar: the floating point type of the curves and of the fluid system *)

Leaf(op, q, r) == [op |-> op, q |-> q, r |-> r, args |-> <<>>]

\* an uninterpreted call, or an arithmetic expression over one
Term(op, args) == [op |-> op, q |-> <<0, 1>>, r |-> <<0, 1>>, args |-> args]

NaN == Leaf("nan", <<0, 1>>, <<0, 1>>)

Inf(s) == Leaf("inf", <<s, 1>>, <<0, 1>>)

Zero == Leaf("num", <<0, 1>>, <<0, 1>>)

\* q * 2^r for rationals q and r
MkNum(q, r) ==
    IF q[1] = 0 THEN Zero
    ELSE LET vn == V2(Abs(q[1]))
             vd == V2(q[2])
         IN  Leaf("num", <<q[1] \div IPow(2, vn), q[2] \div IPow(2, vd)>>,
                  RAdd(r, <<vn - vd, 1>>))

Num(n, d) == MkNum(Rat(n, d), <<0, 1>>)

One == Num(1, 1)

IsNaN(x) == x.op = "nan"

IsInf(x) == x.op = "inf"

IsNum(x) == x.op = "num"

IsSym(x) == x.op \notin {"num", "inf", "nan"}

Sign(x) == Sgn(x.q[1])

\* a finite Scalar whose value is a rational number
IsRational(x) == IsNum(x) /\ x.r[2] = 1

ToRat(x) ==
    IF x.r[1] >= 0 THEN Rat(x.q[1] * IPow(2, x.r[1]), x.q[2])
    ELSE Rat(x.q[1], x.q[2] * IPow(2, -x.r[1]))

IsInteger(x) == IsRational(x) /\ ToRat(x)[2] = 1

Neg(x) ==
    IF IsNaN(x) THEN NaN
    ELSE IF IsSym(x) THEN Term("neg", <<x>>)
    ELSE Leaf(x.op, RNeg(x.q), x.r)

Mul(a, b) ==
    IF IsNaN(a) \/ IsNaN(b) THEN NaN
    ELSE IF IsSym(a) \/ IsSym(b) THEN Term("mul", <<a, b>>)
    ELSE IF IsInf(a) \/ IsInf(b)
         THEN IF Sign(a) * Sign(b) = 0 THEN NaN ELSE Inf(Sign(a) * Sign(b))
    ELSE MkNum(RMul(a.q, b.q), RAdd(a.r, b.r))

Div(a, b) ==
    IF IsNaN(a) \/ IsNaN(b) THEN NaN
    ELSE IF IsSym(a) \/ IsSym(b) THEN Term("div", <<a, b>>)
    ELSE IF IsInf(a)
         THEN IF IsInf(b) THEN NaN
              ELSE Inf(Sign(a) * (IF Sign(b) < 0 THEN -1 ELSE 1))
    ELSE IF IsInf(b) THEN Zero
    ELSE IF b = Zero
         THEN IF a = Zero THEN NaN ELSE Inf(Sign(a))
    ELSE MkNum(RMul(a.q, RInv(b.q)), RAdd(a.r, RNeg(b.r)))

Add(a, b) ==
    IF IsNaN(a) \/ IsNaN(b) THEN NaN
    ELSE IF a = Zero THEN b
    ELSE IF b = Zero THEN a
    ELSE IF IsSym(a) \/ IsSym(b) THEN Term("add", <<a, b>>)
    ELSE IF IsInf(a)
         THEN IF IsInf(b) /\ Sign(a) # Sign(b) THEN NaN ELSE a
    ELSE IF IsInf(b) THEN b
    ELSE IF IsRational(a) /\ IsRational(b)
         THEN MkNum(RAdd(ToRat(a), ToRat(b)), <<0, 1>>)
    ELSE IF a.r = b.r THEN MkNum(RAdd(a.q, b.q), a.r)
    ELSE Term("add", <<a, b>>)

Sub(a, b) ==
    IF IsNaN(a) \/ IsNaN(b) THEN NaN
    ELSE IF IsSym(a) \/ IsSym(b) THEN Term("sub", <<a, b>>)
    ELSE Add(a, Neg(b))

\* |a| < |b| for a, b nonzero, not NaN, not symbolic
MagLt(a, b) ==
    IF IsInf(a) THEN FALSE
    ELSE IF IsInf(b) THEN TRUE
    ELSE LET q == RMul(RAbs(a.q), RInv(RAbs(b.q)))
             r == RAdd(a.r, RNeg(b.r))
             p == RIPow(q, r[2])
         IN  IF r[1] >= 0 THEN p[1] * IPow(2, r[1]) < p[2]
             ELSE p[1] < p[2] * IPow(2, -r[1])

\* a < b; false when either is NaN
Lt(a, b) ==
    IF IsNaN(a) \/ IsNaN(b) THEN FALSE
    ELSE IF Sign(a) # Sign(b) THEN Sign(a) < Sign(b)
    ELSE IF Sign(a) = 0 THEN FALSE
    ELSE IF Sign(a) > 0 THEN MagLt(a, b)
    ELSE MagLt(b, a)

Leq(a, b) == ~IsNaN(a) /\ ~IsNaN(b) /\ ~Lt(b, a)

\* std::max(a, b) and std::min(a, b) of <algorithm>
Max(a, b) == IF Lt(a, b) THEN b ELSE a

Min(a, b) == IF Lt(b, a) THEN b ELSE a

\* x^e for a finite x # 0 and a rational e # 0
PowFinite(x, e) ==
    IF Sign(x) < 0 /\ e[2] # 1 THEN NaN
    ELSE IF e[2] = 1
         THEN LET s == IF Sign(x) < 0 /\ e[1] % 2 = 1 THEN -1 ELSE 1
                  m == RIPow(RAbs(x.q), e[1])
              IN  Leaf("num", <<s * m[1], m[2]>>, RMul(x.r, e))
    ELSE IF RAbs(x.q) = <<1, 1>> THEN Leaf("num", x.q, RMul(x.r, e))
    ELSE Term("pow", <<x, MkNum(e, <<0, 1>>)>>)

\* pow(x, y) of <math.h>
Pow(x, y) ==
    IF y = Zero THEN One
    ELSE IF x = One THEN One
    ELSE IF IsNaN(x) \/ IsNaN(y) THEN NaN
    ELSE IF IsSym(x) \/ IsSym(y) THEN Term("pow", <<x, y>>)
    ELSE IF IsInf(y)
         THEN IF x = Neg(One) THEN One
              ELSE IF x = Zero \/ (~IsInf(x) /\ MagLt(x, One))
                   THEN IF Sign(y) > 0 THEN Zero ELSE Inf(1)
              ELSE IF Sign(y) > 0 THEN Inf(1) ELSE Zero
    ELSE IF x = Zero
         THEN IF Sign(y) < 0 THEN Inf(1) ELSE Zero
    ELSE IF IsInf(x)
         THEN LET odd == IsInteger(y) /\ ToRat(y)[1] % 2 = 1
              IN  IF Sign(y) < 0 THEN Zero
                  ELSE IF Sign(x) < 0 /\ odd THEN Inf(-1) ELSE Inf(1)
    ELSE IF ~IsRational(y) THEN Term("pow", <<x, y>>)
    ELSE PowFinite(x, ToRat(y))

----------------------------------------------------------------------------
(* Outcomes of a call *)

NoScalar == Term("none", <<>>)

Value(v) == [kind |-> "value", val |-> v, what |-> "", msg |-> ""]

\* a failed assert(): the program is aborted
Abort == [kind |-> "abort", val |-> NoScalar, what |-> "assert", msg |-> ""]

\* DUNE_THROW(Dune::InvalidStateException, msg)
Throw(msg) ==
    [kind |-> "throw", val |-> NoScalar,
     what |-> "Dune::InvalidStateException", msg |-> msg]

NoCall == [kind |-> "none", val |-> NoScalar, what |-> "", msg |-> ""]

\* assert(cond) of <assert.h>: compiled out when NDEBUG is defined
Checked(cond) == ndebug \/ cond

----------------------------------------------------------------------------
(* BrooksCorey<ParamsT> *)

\* pC with the exponent of Sw, -alpha, in place of -1/alpha
pC_WrongExponent(params, Swe) ==
    IF ~Checked(Leq(Zero, Swe) /\ Leq(Swe, One)) THEN Abort
    ELSE Value(Mul(params.pe, Pow(Swe, Neg(params.alpha))))

pC(params, Swe) ==
    IF ~Checked(Leq(Zero, Swe) /\ Leq(Swe, One)) THEN Abort
    ELSE Value(Mul(params.pe, Pow(Swe, Div(Num(-1, 1), params.alpha))))

\* Sw without the clamp into [0,1]
Sw_NoClamp(params, pc) ==
    IF ~Checked(Leq(Zero, pc)) THEN Abort
    ELSE Value(Pow(Div(pc, params.pe), Neg(params.alpha)))

Sw(params, pc) ==
    IF ~Checked(Leq(Zero, pc)) THEN Abort
    ELSE LET tmp == Pow(Div(pc, params.pe), Neg(params.alpha))
         IN  Value(Min(Max(tmp, Zero), One))

\* dpC_dSw with the exponent -1/alpha + 1
dpC_dSw_WrongExponent(params, Swe) ==
    IF ~Checked(Leq(Zero, Swe) /\ Leq(Swe, One)) THEN Abort
    ELSE Value(Mul(Div(Neg(params.pe), params.alpha),
                   Pow(Swe, Add(Div(Num(-1, 1), params.alpha), One))))

dpC_dSw(params, Swe) ==
    IF ~Checked(Leq(Zero, Swe) /\ Leq(Swe, One)) THEN Abort
    ELSE Value(Mul(Div(Neg(params.pe), params.alpha),
                   Pow(Swe, Sub(Div(Num(-1, 1), params.alpha), One))))

dSw_dpC(params, pc) ==
    IF ~Checked(Leq(Zero, pc)) THEN Abort
    ELSE Value(Mul(Div(Neg(params.alpha), params.pe),
                   Pow(Div(pc, params.pe), Sub(Neg(params.alpha), One))))

\* krw asserting 0 < Sw_mob instead of 0 <= Sw_mob
krw_StrictCheck(params, Sw_mob) ==
    IF ~Checked(Lt(Zero, Sw_mob) /\ Leq(Sw_mob, One)) THEN Abort
    ELSE Value(Pow(Sw_mob,
                   Div(Add(Num(2, 1), Mul(Num(3, 1), params.alpha)),
                       params.alpha)))

krw(params, Sw_mob) ==
    IF ~Checked(Leq(Zero, Sw_mob) /\ Leq(Sw_mob, One)) THEN Abort
    ELSE Value(Pow(Sw_mob,
                   Div(Add(Num(2, 1), Mul(Num(3, 1), params.alpha)),
                       params.alpha)))

krn(params, Sw_mob) ==
    IF ~Checked(Leq(Zero, Sw_mob) /\ Leq(Sw_mob, One)) THEN Abort
    ELSE LET exponent == Div(Add(Num(2, 1), params.alpha), params.alpha)
             tmp == Sub(One, Sw_mob)
         IN  Value(Mul(Mul(tmp, tmp), Sub(One, Pow(Sw_mob, exponent))))

----------------------------------------------------------------------------
(* Simple_H2O_N2_System<TypeTag> *)

numComponents == 2
numPhases == 2

lPhaseIdx == 0
gPhaseIdx == 1

H2OIdx == 0
N2Idx == 1

\* a static function of another header, applied to its arguments
Ext(name, args) == Term(name, args)

\* Dumux::IdealGas<Scalar>::R
IdealGas_R == Ext("IdealGas::R", <<>>)

\* Dumux::IdealGas<Scalar>::density(avgMolarMass, temperature, pressure)
IdealGas_density(avgMolarMass, temperature, pressure) ==
    Div(Mul(pressure, avgMolarMass), Mul(IdealGas_R, temperature))

\* the value of an int argument streamed into a message or passed on
IntScalar(i) == Num(i, 1)

\* the fluid state object handed to a call, as an argument of an
\* uninterpreted function
FsTerm(fs) ==
    Term("FluidState",
         <<fs.moleFrac[<<lPhaseIdx, H2OIdx>>], fs.moleFrac[<<lPhaseIdx, N2Idx>>],
           fs.moleFrac[<<gPhaseIdx, H2OIdx>>], fs.moleFrac[<<gPhaseIdx, N2Idx>>],
           fs.massFrac[<<lPhaseIdx, H2OIdx>>], fs.massFrac[<<lPhaseIdx, N2Idx>>],
           fs.massFrac[<<gPhaseIdx, H2OIdx>>], fs.massFrac[<<gPhaseIdx, N2Idx>>],
           fs.partialPressure[H2OIdx], fs.partialPressure[N2Idx]>>)

componentName(compIdx) ==
    IF compIdx = H2OIdx THEN Value(Ext("H2O::name", <<>>))
    ELSE IF compIdx = N2Idx THEN Value(Ext("N2::name", <<>>))
    ELSE Throw("Invalid component index")

\* molarMass with N2 as the default case of the switch
molarMass_DefaultsToN2(compIdx) ==
    IF compIdx = H2OIdx THEN Value(Ext("H2O::molarMass", <<>>))
    ELSE Value(Ext("N2::molarMass", <<>>))

molarMass(compIdx) ==
    IF compIdx = H2OIdx THEN Value(Ext("H2O::molarMass", <<>>))
    ELSE IF compIdx = N2Idx THEN Value(Ext("N2::molarMass", <<>>))
    ELSE Throw("Invalid component index")

\* the outcome of a void function that was handed a fluid state: the fluid
\* state it leaves behind, and the calls of setPartialPressure it made
Void(fluidState, calls) ==
    [kind |-> "void", val |-> NoScalar, what |-> "", msg |-> "",
     fluidState |-> fluidState, calls |-> calls]

\* fluidState.setPartialPressure(componentIndex, pressure)
setPartialPressure(fluidState, compIdx, pressure) ==
    [fluidState EXCEPT !.partialPressure[compIdx] = pressure]

\* computePartialPressures reading the liquid's mole fractions
computePartialPressures_LiquidComposition(temperature, pg, fluidState) ==
    LET pH2O == Mul(pg, fluidState.moleFrac[<<lPhaseIdx, H2OIdx>>])
        fs1 == setPartialPressure(fluidState, H2OIdx, pH2O)
        pN2 == Mul(pg, fs1.moleFrac[<<lPhaseIdx, N2Idx>>])
        fs2 == setPartialPressure(fs1, N2Idx, pN2)
    IN  Void(fs2, <<[compIdx |-> H2OIdx, pressure |-> pH2O],
                    [compIdx |-> N2Idx, pressure |-> pN2]>>)

computePartialPressures(temperature, pg, fluidState) ==
    LET pH2O == Mul(pg, fluidState.moleFrac[<<gPhaseIdx, H2OIdx>>])
        fs1 == setPartialPressure(fluidState, H2OIdx, pH2O)
        pN2 == Mul(pg, fs1.moleFrac[<<gPhaseIdx, N2Idx>>])
        fs2 == setPartialPressure(fs1, N2Idx, pN2)
    IN  Void(fs2, <<[compIdx |-> H2OIdx, pressure |-> pH2O],
                    [compIdx |-> N2Idx, pressure |-> pN2]>>)

\* phaseDensity averaging the molar mass over the liquid's composition
phaseDensity_LiquidComposition(phaseIdx, temperature, pressure, fluidState) ==
    IF phaseIdx = lPhaseIdx
    THEN Value(Ext("H2O::liquidDensity", <<temperature, pressure>>))
    ELSE IF phaseIdx = gPhaseIdx
    THEN LET meanMolarMass ==
                 Add(Mul(fluidState.moleFrac[<<lPhaseIdx, H2OIdx>>],
                         Ext("H2O::molarMass", <<>>)),
                     Mul(fluidState.moleFrac[<<lPhaseIdx, N2Idx>>],
                         Ext("N2::molarMass", <<>>)))
         IN  Value(IdealGas_density(meanMolarMass, temperature, pressure))
    ELSE Throw("Invalid phase index")

phaseDensity(phaseIdx, temperature, pressure, fluidState) ==
    IF phaseIdx = lPhaseIdx
    THEN Value(Ext("H2O::liquidDensity", <<temperature, pressure>>))
    ELSE IF phaseIdx = gPhaseIdx
    THEN LET meanMolarMass ==
                 Add(Mul(fluidState.moleFrac[<<gPhaseIdx, H2OIdx>>],
                         Ext("H2O::molarMass", <<>>)),
                     Mul(fluidState.moleFrac[<<gPhaseIdx, N2Idx>>],
                         Ext("N2::molarMass", <<>>)))
         IN  Value(IdealGas_density(meanMolarMass, temperature, pressure))
    ELSE Throw("Invalid phase index")

phaseViscosity(phaseIdx, temperature, pressure, fluidState) ==
    IF phaseIdx = lPhaseIdx
    THEN Value(Ext("H2O::liquidViscosity", <<temperature, pressure>>))
    ELSE Value(Ext("N2::gasViscosity", <<temperature, pressure>>))

degasPressure(compIdx, temperature, pressure) ==
    IF compIdx = H2OIdx
    THEN Value(Ext("H2O::vaporPressure", <<temperature>>))
    ELSE IF compIdx = N2Idx
    THEN Value(Ext("BinaryCoeff::H2O_N2::henry", <<temperature>>))
    ELSE Throw("Invalid component index")

componentDensity(phaseIdx, compIdx, temperature, pressure) ==
    IF phaseIdx = lPhaseIdx
    THEN IF compIdx = H2OIdx
         THEN Value(Ext("H2O::liquidDensity", <<temperature, pressure>>))
         ELSE IF compIdx = N2Idx
         THEN Value(Ext("N2::liquidDensity", <<temperature, pressure>>))
         ELSE Throw("Invalid component index")
    ELSE IF phaseIdx = gPhaseIdx
    THEN IF compIdx = H2OIdx
         THEN Value(Ext("H2O::gasDensity", <<temperature, pressure>>))
         ELSE IF compIdx = N2Idx
         THEN Value(Ext("N2::gasDensity", <<temperature, pressure>>))
         ELSE Throw("Invalid component index")
    ELSE Throw("Invalid phase index")

componentPressure(phaseIdx, compIdx, temperature, density) ==
    IF phaseIdx = lPhaseIdx
    THEN IF compIdx = H2OIdx
         THEN Value(Ext("H2O::liquidPressure", <<temperature, density>>))
         ELSE IF compIdx = N2Idx
         THEN Value(Ext("N2::liquidPressure", <<temperature, density>>))
         ELSE Throw("Invalid component index")
    ELSE IF phaseIdx = gPhaseIdx
    THEN IF compIdx = H2OIdx
         THEN Value(Ext("H2O::gasPressure", <<temperature, density>>))
         ELSE IF compIdx = N2Idx
         THEN Value(Ext("N2::gasPressure", <<temperature, density>>))
         ELSE Throw("Invalid component index")
    ELSE Throw("Invalid phase index")

\* diffCoeff without the swap that orders the two component indices
diffCoeff_NoSwap(phaseIdx, compIIdx, compJIdx, temperature, pressure, fluidState) ==
    IF phaseIdx = lPhaseIdx
    THEN IF compIIdx = H2OIdx /\ compJIdx = N2Idx
         THEN Value(Ext("BinaryCoeff::H2O_N2::liquidDiffCoeff",
                        <<temperature, pressure>>))
         ELSE Throw("Binary diffusion coefficients of trace substances in liquid phase is undefined!")
    ELSE IF phaseIdx = gPhaseIdx /\ compIIdx = H2OIdx /\ compJIdx = N2Idx
    THEN Value(Ext("BinaryCoeff::H2O_N2::gasDiffCoeff",
                   <<temperature, pressure>>))
    ELSE Throw("Binary diffusion coefficient of components is undefined!")

\* The nested switch statements of diffCoeff.  In the liquid phase, case
\* H2OIdx leaves its inner switch without a break and runs into the
\* default label, which throws; so nothing falls through to case gPhaseIdx.
diffCoeff(phaseIdx, compIIdx0, compJIdx0, temperature, pressure, fluidState) ==
    LET swap == compIIdx0 > compJIdx0
        compIIdx == IF swap THEN compJIdx0 ELSE compIIdx0
        compJIdx == IF swap THEN compIIdx0 ELSE compJIdx0
    IN  IF phaseIdx = lPhaseIdx
        THEN IF compIIdx = H2OIdx /\ compJIdx = N2Idx
             THEN Value(Ext("BinaryCoeff::H2O_N2::liquidDiffCoeff",
                            <<temperature, pressure>>))
             ELSE Throw("Binary diffusion coefficients of trace substances in liquid phase is undefined!")
        ELSE IF phaseIdx = gPhaseIdx /\ compIIdx = H2OIdx /\ compJIdx = N2Idx
        THEN Value(Ext("BinaryCoeff::H2O_N2::gasDiffCoeff",
                       <<temperature, pressure>>))
        ELSE Throw("Binary diffusion coefficient of components is undefined!")

\* the values an uninitialised Scalar can hold when it is read
IndeterminateScalars ==
    {Zero, NaN, Num(300, 1), Num(350, 1), Num(100000, 1), Num(200000, 1)}

\* The set of outcomes of phaseEnthalpy.  In the liquid branch the locals
\* "Scalar temperature = temperature; Scalar pressure = pressure;" hide the
\* parameters and are initialised from themselves, so liquidEnthalpy is
\* called with two indeterminate values.
phaseEnthalpy(phaseIdx, temperature, pressure, fluidState) ==
    IF phaseIdx = lPhaseIdx
    THEN {Value(Ext("H2O::liquidEnthalpy", <<t, p>>)) :
              t \in IndeterminateScalars, p \in IndeterminateScalars}
    ELSE LET pWater == fluidState.partialPressure[H2OIdx]
             result0 == Zero
             result1 == Add(result0,
                            Mul(Ext("H2O::gasEnthalpy", <<temperature, pWater>>),
                                fluidState.massFrac[<<gPhaseIdx, H2OIdx>>]))
             result2 == Add(result1,
                            Mul(Ext("N2::gasEnthalpy",
                                    <<temperature,
                                      fluidState.partialPressure[N2Idx]>>),
                                fluidState.massFrac[<<gPhaseIdx, N2Idx>>]))
         IN  {Value(result2)}

\* phaseInternalEnergy calls enthalpy(), which this class does not declare
\* (its own function is phaseEnthalpy): the callee is whatever the
\* instantiation finds under that name.
phaseInternalEnergy(phaseIdx, temperature, pressure, fluidState) ==
    LET h == Ext("enthalpy",
                 <<IntScalar(phaseIdx), temperature, pressure,
                   FsTerm(fluidState)>>)
    IN  IF phaseIdx = lPhaseIdx
        THEN Value(Sub(h, Mul(pressure,
                              phaseDensity(phaseIdx, temperature, pressure,
                                           fluidState).val)))
        ELSE Value(Sub(h, Mul(IdealGas_R, temperature)))

----------------------------------------------------------------------------
(* The arguments offered by the client *)

\* 2^(n/d)
Pow2(n, d) == Leaf("num", <<1, 1>>, Rat(n, d))

PeValues == {One, Num(1000, 1), Num(3, 2)}

AlphaValues == {Num(1, 2), One, Num(2, 1), Num(3, 1)}

ParamSets == [pe : PeValues, alpha : AlphaValues]

InDomainSat == {Zero} \cup {Pow2(-j, 2) : j \in 0..MaxSatSteps}

OutOfDomainSat == {Num(-1, 2), Pow2(1, 2), Num(2, 1)}

Saturations == InDomainSat \cup OutOfDomainSat

\* capillary pressures, as multiples of the entry pressure
PcFactors == {Zero, Num(-1, 1)} \cup
             {Pow2(j, 2) : j \in (-MaxSatSteps)..MaxSatSteps}

CapPressures(params) == {Mul(params.pe, f) : f \in PcFactors}

Indices == (-1)..MaxIdx

Temperatures == {Num(300, 1), Num(350, 1)}

Pressures == {Num(100000, 1), Num(200000, 1)}

Densities == {Num(1, 1), Num(1000, 1)}

PhaseComp == {lPhaseIdx, gPhaseIdx} \X {H2OIdx, N2Idx}

Fracs == {Num(1, 4), Num(3, 4)}

MassFracs == {[pc \in PhaseComp |-> Num(1 + 2 * pc[1] + pc[2], 8)],
              [pc \in PhaseComp |-> Num(7 - 2 * pc[1] - pc[2], 16)]}

PartialPressures == {[c \in {H2OIdx, N2Idx} |-> Num(1000 * (c + 1), 1)],
                     [c \in {H2OIdx, N2Idx} |-> Num(70000 - 40000 * c, 1)]}

FluidStates == [moleFrac : [PhaseComp -> Fracs],
                massFrac : MassFracs,
                partialPressure : PartialPressures]

SatOps == {"pC", "dpC_dSw", "krw", "krn"}

PcOps == {"Sw", "dSw_dpC"}

CurveCalls ==
    {[op |-> o, params |-> pa, x |-> s, from |-> NoScalar] :
         o \in SatOps, pa \in ParamSets, s \in Saturations}
    \cup
    UNION {{[op |-> o, params |-> pa, x |-> pc, from |-> NoScalar] :
                o \in PcOps, pc \in CapPressures(pa)} : pa \in ParamSets}

PhaseOps == {"phaseDensity", "phaseViscosity", "phaseEnthalpy",
             "phaseInternalEnergy"}

FluidCalls ==
    [op : {"componentName", "molarMass"}, compIdx : Indices]
    \cup
    [op : {"degasPressure"}, compIdx : Indices,
     temperature : Temperatures, pressure : Pressures]
    \cup
    [op : {"componentDensity"}, phaseIdx : Indices, compIdx : Indices,
     temperature : Temperatures, pressure : Pressures]
    \cup
    [op : {"componentPressure"}, phaseIdx : Indices, compIdx : Indices,
     temperature : Temperatures, density : Densities]
    \cup
    [op : PhaseOps, phaseIdx : Indices,
     temperature : Temperatures, pressure : Pressures,
     fluidState : FluidStates]
    \cup
    [op : {"diffCoeff"}, phaseIdx : Indices,
     compIIdx : Indices, compJIdx : Indices,
     temperature : Temperatures, pressure : Pressures,
     fluidState : FluidStates]
    \cup
    [op : {"computePartialPressures"},
     temperature : Temperatures, pg : Pressures,
     fluidState : FluidStates]

----------------------------------------------------------------------------
(* The state machine: the client has a call to make, and makes it *)

Init ==
    /\ ndebug \in BOOLEAN
    /\ call \in CurveCalls \cup FluidCalls
    /\ ret = NoCall

Pending(op) == call.op = op /\ ret.kind = "none"

Call_pC ==
    /\ Pending("pC")
    /\ ret' = pC(call.params, call.x)
    /\ UNCHANGED <<ndebug, call>>

\* Sw is called with a capillary pressure of the client's, or with the one
\* that pC has just returned
Call_Sw ==
    \/ /\ Pending("Sw")
       /\ ret' = Sw(call.params, call.x)
       /\ UNCHANGED <<ndebug, call>>
    \/ /\ call.op = "pC"
       /\ ret.kind = "value"
       /\ call' = [op |-> "Sw", params |-> call.params, x |-> ret.val,
                   from |-> call.x]
       /\ ret' = Sw(call.params, ret.val)
       /\ UNCHANGED ndebug

Call_dpC_dSw ==
    /\ Pending("dpC_dSw")
    /\ ret' = dpC_dSw(call.params, call.x)
    /\ UNCHANGED <<ndebug, call>>

Call_dSw_dpC ==
    /\ Pending("dSw_dpC")
    /\ ret' = dSw_dpC(call.params, call.x)
    /\ UNCHANGED <<ndebug, call>>

Call_krw ==
    /\ Pending("krw")
    /\ ret' = krw(call.params, call.x)
    /\ UNCHANGED <<ndebug, call>>

Call_krn ==
    /\ Pending("krn")
    /\ ret' = krn(call.params, call.x)
    /\ UNCHANGED <<ndebug, call>>

Call_componentName ==
    /\ Pending("componentName")
    /\ ret' = componentName(call.compIdx)
    /\ UNCHANGED <<ndebug, call>>

Call_molarMass ==
    /\ Pending("molarMass")
    /\ ret' = molarMass(call.compIdx)
    /\ UNCHANGED <<ndebug, call>>

Call_phaseDensity ==
    /\ Pending("phaseDensity")
    /\ ret' = phaseDensity(call.phaseIdx, call.temperature, call.pressure,
                           call.fluidState)
    /\ UNCHANGED <<ndebug, call>>

Call_phaseViscosity ==
    /\ Pending("phaseViscosity")
    /\ ret' = phaseViscosity(call.phaseIdx, call.temperature, call.pressure,
                             call.fluidState)
    /\ UNCHANGED <<ndebug, call>>

Call_degasPressure ==
    /\ Pending("degasPressure")
    /\ ret' = degasPressure(call.compIdx, call.temperature, call.pressure)
    /\ UNCHANGED <<ndebug, call>>

Call_componentDensity ==
    /\ Pending("componentDensity")
    /\ ret' = componentDensity(call.phaseIdx, call.compIdx,
                               call.temperature, call.pressure)
    /\ UNCHANGED <<ndebug, call>>

Call_componentPressure ==
    /\ Pending("componentPressure")
    /\ ret' = componentPressure(call.phaseIdx, call.compIdx,
                                call.temperature, call.density)
    /\ UNCHANGED <<ndebug, call>>

Call_diffCoeff ==
    /\ Pending("diffCoeff")
    /\ ret' = diffCoeff(call.phaseIdx, call.compIIdx, call.compJIdx,
                        call.temperature, call.pressure, call.fluidState)
    /\ UNCHANGED <<ndebug, call>>

Call_phaseEnthalpy ==
    /\ Pending("phaseEnthalpy")
    /\ ret' \in phaseEnthalpy(call.phaseIdx, call.temperature, call.pressure,
                              call.fluidState)
    /\ UNCHANGED <<ndebug, call>>

Call_phaseInternalEnergy ==
    /\ Pending("phaseInternalEnergy")
    /\ ret' = phaseInternalEnergy(call.phaseIdx, call.temperature,
                                  call.pressure, call.fluidState)
    /\ UNCHANGED <<ndebug, call>>

Call_computePartialPressures ==
    /\ Pending("computePartialPressures")
    /\ ret' = computePartialPressures(call.temperature, call.pg,
                                      call.fluidState)
    /\ UNCHANGED <<ndebug, call>>

Next ==
    \/ Call_pC
    \/ Call_Sw
    \/ Call_dpC_dSw
    \/ Call_dSw_dpC
    \/ Call_krw
    \/ Call_krn
    \/ Call_componentName
    \/ Call_molarMass
    \/ Call_phaseDensity
    \/ Call_phaseViscosity
    \/ Call_degasPressure
    \/ Call_componentDensity
    \/ Call_componentPressure
    \/ Call_diffCoeff
    \/ Call_phaseEnthalpy
    \/ Call_phaseInternalEnergy
    \/ Call_computePartialPressures

Spec == Init /\ [][Next]_vars

Returned == ret.kind # "none"

InUnitInterval(x) == Leq(Zero, x) /\ Leq(x, One)

ValidParams(params) == Lt(Zero, params.pe) /\ Lt(Zero, params.alpha)

ExampleParams == [pe |-> Num(1000, 1), alpha |-> Num(2, 1)]

----------------------------------------------------------------------------
(* Properties *)

\* C1: for pe > 0, alpha > 0 and every capillary pressure pC >= 0, pC = 0
\* and pC < pe included, Sw returns a value s with 0 <= s <= 1.
C1_SwInUnitInterval ==
    (call.op = "Sw" /\ Returned /\ ValidParams(call.params)
        /\ Leq(Zero, call.x))
    => (ret.kind = "value" /\ InUnitInterval(ret.val))

\* Sw has been called with pC = 0, where pow() yields +inf, and returned 1
C1_Witness ==
    call.op = "Sw" /\ call.x = Zero /\ ret = Value(One)

\* C2: for pe > 0, alpha > 0 and s in (0,1], Sw(params, pC(params, s)) = s,
\* and the value Sw computes before clamping is already in [0,1].
C2_RoundTrip ==
    (call.op = "Sw" /\ Returned /\ call.from # NoScalar
        /\ ValidParams(call.params)
        /\ Lt(Zero, call.from) /\ Leq(call.from, One))
    => /\ ret = Value(call.from)
       /\ InUnitInterval(Pow(Div(call.x, call.params.pe),
                             Neg(call.params.alpha)))

\* Sw has been applied to pC(params, 1/2) with pe = 1000, alpha = 2
C2_Witness ==
    /\ call.op = "Sw"
    /\ call.params = ExampleParams
    /\ call.from = Num(1, 2)
    /\ call.x = Leaf("num", <<125, 1>>, <<7, 2>>)
    /\ ret = Value(Num(1, 2))

\* the power law c * x^e and its derivative by the power rule
PowerLaw(c, x, e) == Mul(c, Pow(x, e))

PowerLawDerivative(c, x, e) == Mul(Mul(c, e), Pow(x, Sub(e, One)))

BrooksCoreyExponent(params) == Div(Num(-1, 1), params.alpha)

\* C3: for Swe in (0,1], pC = pe * Swe^(-1/alpha) and dpC_dSw is its exact
\* derivative -(pe/alpha) * Swe^(-1/alpha - 1); with pe = 1000, alpha = 2,
\* pC(0.5) = 1000 * 0.5^(-0.5) and dpC_dSw(0.5) = -500 * 0.5^(-1.5), which
\* are 125 * 2^(7/2) and -125 * 2^(7/2).
C3_CurveAndDerivative ==
    (call.op \in {"pC", "dpC_dSw"} /\ Returned /\ ValidParams(call.params)
        /\ Lt(Zero, call.x) /\ Leq(call.x, One))
    => /\ call.op = "pC" =>
              ret = Value(PowerLaw(call.params.pe, call.x,
                                   BrooksCoreyExponent(call.params)))
       /\ call.op = "dpC_dSw" =>
              ret = Value(PowerLawDerivative(call.params.pe, call.x,
                                             BrooksCoreyExponent(call.params)))
       /\ (call.params = ExampleParams /\ call.x = Num(1, 2)) =>
              ret.val = Leaf("num",
                             <<IF call.op = "pC" THEN 125 ELSE -125, 1>>,
                             <<7, 2>>)

\* dpC_dSw has been called with pe = 1000, alpha = 2, Swe = 0.5
C3_Witness ==
    /\ call.op = "dpC_dSw"
    /\ call.params = ExampleParams
    /\ call.x = Num(1, 2)
    /\ ret = Value(Leaf("num", <<-125, 1>>, <<7, 2>>))

\* the operations of the fluid system that take a phase index
PhaseIndexOps == PhaseOps \cup
                 {"componentDensity", "componentPressure", "diffCoeff"}

\* C4: every operation that takes a phase index throws
\* InvalidStateException and returns no value when the phase index is
\* neither lPhaseIdx nor gPhaseIdx.
C4_UnknownPhaseThrows ==
    (call.op \in PhaseIndexOps /\ Returned
        /\ call.phaseIdx \notin {lPhaseIdx, gPhaseIdx})
    => (ret.kind = "throw" /\ ret.what = "Dune::InvalidStateException")

\* the operations of the fluid system that take one component index
ComponentIndexOps == {"componentName", "molarMass", "degasPressure",
                      "componentDensity", "componentPressure"}

\* the functions that give a property of component compIdx
PropertiesOf(compIdx) ==
    IF compIdx = H2OIdx
    THEN {"H2O::name", "H2O::molarMass", "H2O::vaporPressure",
          "H2O::liquidDensity", "H2O::gasDensity",
          "H2O::liquidPressure", "H2O::gasPressure"}
    ELSE {"N2::name", "N2::molarMass", "BinaryCoeff::H2O_N2::henry",
          "N2::liquidDensity", "N2::gasDensity",
          "N2::liquidPressure", "N2::gasPressure"}

TakesPhaseIndex(c) == c.op \in PhaseIndexOps

\* C5: every operation that takes a single component index throws
\* InvalidStateException when the index is neither H2OIdx nor N2Idx,
\* whatever its other arguments are; for a valid index (and, where there is
\* one, a valid phase index) it returns, and what it returns is a property
\* of exactly that component.
C5_ComponentIndex ==
    (call.op \in ComponentIndexOps /\ Returned)
    => /\ call.compIdx \notin {H2OIdx, N2Idx} =>
              (ret.kind = "throw" /\ ret.what = "Dune::InvalidStateException")
       /\ call.compIdx \in {H2OIdx, N2Idx} =>
              /\ ret.kind = "value" => ret.val.op \in PropertiesOf(call.compIdx)
              /\ (TakesPhaseIndex(call) =>
                      call.phaseIdx \in {lPhaseIdx, gPhaseIdx})
                 => ret.kind = "value"

\* componentDensity has thrown for component index 2 in the gas phase
C5_Witness ==
    /\ call.op = "componentDensity"
    /\ call.phaseIdx = gPhaseIdx
    /\ call.compIdx = 2
    /\ ret.kind = "throw"

\* C6: in a build with assertions, pC, dpC_dSw, krw and krn return a value
\* exactly when 0 <= saturation <= 1 and abort otherwise; Sw and dSw_dpC
\* return a value exactly when pC >= 0 and abort otherwise.
C6_DebugDomainChecks ==
    (~ndebug /\ Returned /\ call.op \in SatOps \cup PcOps)
    => LET inDomain == IF call.op \in SatOps THEN InUnitInterval(call.x)
                       ELSE Leq(Zero, call.x)
       IN  /\ inDomain => ret.kind = "value"
           /\ ~inDomain => ret = Abort

\* with assertions, krn has aborted on the saturation 2
C6_Witness ==
    ~ndebug /\ call.op = "krn" /\ call.x = Num(2, 1) /\ ret = Abort

\* with assertions, krw has returned for the boundary saturation 0
C6_BoundaryWitness ==
    ~ndebug /\ call.op = "krw" /\ call.x = Zero /\ ret = Value(Zero)

\* C7: in the gas phase phaseDensity returns P*M/(R*T) for the mean molar
\* mass M = moleFrac(g,H2O)*M_H2O + moleFrac(g,N2)*M_N2; in the liquid phase
\* it returns H2O::liquidDensity(T, P), whatever the composition is.
C7_PhaseDensity ==
    (call.op = "phaseDensity" /\ Returned)
    => /\ call.phaseIdx = gPhaseIdx =>
              LET M == Add(Mul(call.fluidState.moleFrac[<<gPhaseIdx, H2OIdx>>],
                               Ext("H2O::molarMass", <<>>)),
                           Mul(call.fluidState.moleFrac[<<gPhaseIdx, N2Idx>>],
                               Ext("N2::molarMass", <<>>)))
              IN  ret = Value(Div(Mul(call.pressure, M),
                                  Mul(IdealGas_R, call.temperature)))
       /\ call.phaseIdx = lPhaseIdx =>
              ret = Value(Ext("H2O::liquidDensity",
                              <<call.temperature, call.pressure>>))

\* phaseDensity has returned for the gas phase of a fluid state whose gas
\* and liquid compositions differ
C7_Witness ==
    /\ call.op = "phaseDensity"
    /\ call.phaseIdx = gPhaseIdx
    /\ call.fluidState.moleFrac[<<gPhaseIdx, H2OIdx>>] = Num(1, 4)
    /\ call.fluidState.moleFrac[<<lPhaseIdx, H2OIdx>>] = Num(3, 4)
    /\ ret.kind = "value"

\* C8: diffCoeff returns a coefficient iff the phase is liquid or gas and
\* the two components are H2O and N2 in either order (liquidDiffCoeff in
\* the liquid, gasDiffCoeff in the gas phase); otherwise it throws
\* InvalidStateException.
C8_DiffCoeff ==
    (call.op = "diffCoeff" /\ Returned)
    => LET binary == {call.compIIdx, call.compJIdx} = {H2OIdx, N2Idx}
           args == <<call.temperature, call.pressure>>
       IN  /\ (call.phaseIdx = lPhaseIdx /\ binary) =>
                  ret = Value(Ext("BinaryCoeff::H2O_N2::liquidDiffCoeff", args))
           /\ (call.phaseIdx = gPhaseIdx /\ binary) =>
                  ret = Value(Ext("BinaryCoeff::H2O_N2::gasDiffCoeff", args))
           /\ ~(call.phaseIdx \in {lPhaseIdx, gPhaseIdx} /\ binary) =>
                  (ret.kind = "throw"
                      /\ ret.what = "Dune::InvalidStateException")

\* diffCoeff has returned the liquid coefficient for the pair (N2, H2O)
C8_Witness ==
    /\ call.op = "diffCoeff"
    /\ call.phaseIdx = lPhaseIdx
    /\ call.compIIdx = N2Idx
    /\ call.compJIdx = H2OIdx
    /\ ret.kind = "value"

\* C9: in the liquid phase phaseEnthalpy returns H2O::liquidEnthalpy at the
\* caller's temperature and pressure; in the gas phase it returns
\* gasEnthalpy_H2O(T, pp(H2O))*massFrac(g,H2O)
\*   + gasEnthalpy_N2(T, pp(N2))*massFrac(g,N2).
C9_PhaseEnthalpy ==
    (call.op = "phaseEnthalpy" /\ Returned)
    => /\ call.phaseIdx = lPhaseIdx =>
              ret = Value(Ext("H2O::liquidEnthalpy",
                              <<call.temperature, call.pressure>>))
       /\ call.phaseIdx = gPhaseIdx =>
              ret = Value(Add(
                  Mul(Ext("H2O::gasEnthalpy",
                          <<call.temperature,
                            call.fluidState.partialPressure[H2OIdx]>>),
                      call.fluidState.massFrac[<<gPhaseIdx, H2OIdx>>]),
                  Mul(Ext("N2::gasEnthalpy",
                          <<call.temperature,
                            call.fluidState.partialPressure[N2Idx]>>),
                      call.fluidState.massFrac[<<gPhaseIdx, N2Idx>>])))

\* C10: phaseInternalEnergy returns h - p*v with h the value of
\* phaseEnthalpy for the same arguments; in the liquid phase p*v is the
\* pressure divided by phaseDensity, in the gas phase it is R*T.
C10_InternalEnergy ==
    (call.op = "phaseInternalEnergy" /\ Returned
        /\ call.phaseIdx \in {lPhaseIdx, gPhaseIdx})
    => \E h \in phaseEnthalpy(call.phaseIdx, call.temperature, call.pressure,
                              call.fluidState) :
           ret = Value(Sub(h.val,
                           IF call.phaseIdx = lPhaseIdx
                           THEN Div(call.pressure,
                                    phaseDensity(call.phaseIdx,
                                                 call.temperature,
                                                 call.pressure,
                                                 call.fluidState).val)
                           ELSE Mul(IdealGas_R, call.temperature)))

\* the fluid states that agree with fs on the gas phase's mole fractions
SameGasComposition(fs) ==
    {other \in FluidStates :
         \A c \in {H2OIdx, N2Idx} :
             other.moleFrac[<<gPhaseIdx, c>>] = fs.moleFrac[<<gPhaseIdx, c>>]}

\* C11: computePartialPressures calls setPartialPressure exactly once for
\* each of the two components, with pg * moleFrac(gPhaseIdx, c) for
\* component c; the calls depend on nothing but pg and the gas phase's mole
\* fractions (not on the temperature, nor on the rest of the fluid state),
\* the fluid state is otherwise left as it was, and when the two gas mole
\* fractions sum to 1 the two partial pressures sum to pg.
C11_PartialPressures ==
    (call.op = "computePartialPressures" /\ Returned)
    => LET fs == call.fluidState
           x(c) == fs.moleFrac[<<gPhaseIdx, c>>]
           n == Len(ret.calls)
       IN  /\ ret.kind = "void"
           /\ \A c \in {H2OIdx, N2Idx} :
                  /\ Cardinality({i \in 1..n : ret.calls[i].compIdx = c}) = 1
                  /\ ret.fluidState.partialPressure[c] = Mul(call.pg, x(c))
           /\ \A i \in 1..n :
                  /\ ret.calls[i].compIdx \in {H2OIdx, N2Idx}
                  /\ ret.calls[i].pressure =
                         Mul(call.pg, x(ret.calls[i].compIdx))
           /\ ret.fluidState.moleFrac = fs.moleFrac
           /\ ret.fluidState.massFrac = fs.massFrac
           /\ \A t \in Temperatures, other \in SameGasComposition(fs) :
                  computePartialPressures(t, call.pg, other).calls = ret.calls
           /\ Add(x(H2OIdx), x(N2Idx)) = One =>
                  Add(ret.fluidState.partialPressure[H2OIdx],
                      ret.fluidState.partialPressure[N2Idx]) = call.pg

\* computePartialPressures has set 25000 and 75000 Pa for pg = 1e5 Pa and a
\* gas of 1/4 H2O and 3/4 N2 whose liquid has another composition
C11_Witness ==
    /\ call.op = "computePartialPressures"
    /\ call.pg = Num(100000, 1)
    /\ call.fluidState.moleFrac[<<gPhaseIdx, H2OIdx>>] = Num(1, 4)
    /\ call.fluidState.moleFrac[<<gPhaseIdx, N2Idx>>] = Num(3, 4)
    /\ call.fluidState.moleFrac[<<lPhaseIdx, H2OIdx>>] = Num(3, 4)
    /\ ret.kind = "void"
    /\ ret.fluidState.partialPressure[H2OIdx] = Num(25000, 1)
    /\ ret.fluidState.partialPressure[N2Idx] = Num(75000, 1)

====
